---- MODULE Spec2Model ----
(***************************************************************************)
(* Model of src/Project.py: the multilingual chatbot.                      *)
(*                                                                         *)
(* A text is a sequence of one-character strings, so that lower(),         *)
(* strip(), the substring tests and the regular expressions of the source  *)
(* are computed character by character.  Response texts are only stored    *)
(* and returned by the program, so they are plain strings.                 *)
(***************************************************************************)
EXTENDS Integers, Sequences, FiniteSets, TLC

VARIABLES
    LANGDETECT_AVAILABLE,    \* module flag, lines 8-16
    TRANSFORMERS_AVAILABLE,  \* module flag, lines 69-76
    TRANSLATOR_AVAILABLE,    \* module flag, lines 81-88
    model_loaded,            \* self.model_loaded
    classifier,              \* self.classifier: "None" or "pipeline"
    RESPONSES,               \* self.RESPONSES
    LABEL_MAP,               \* self.LABEL_MAP
    _order_keywords,         \* self._order_keywords
    _greeting_keywords,      \* self._greeting_keywords
    pc,                      \* the caller: "ready", "returned" or "raised"
    message,                 \* the argument of the pending/last chat call
    result,                  \* what that call returned (NoResult if nothing)
    error,                   \* what that call raised ("none" if nothing)
    invoked,                 \* the stages and collaborators that call ran
    outcomes,                \* what each collaborator did during that call
    first_call               \* history: the first call of a session of repeated messages

botVars == <<model_loaded, classifier, RESPONSES, LABEL_MAP,
             _order_keywords, _greeting_keywords>>
flagVars == <<LANGDETECT_AVAILABLE, TRANSFORMERS_AVAILABLE, TRANSLATOR_AVAILABLE>>
callVars == <<pc, message, result, error, invoked, outcomes>>
vars == <<flagVars, botVars, callVars, first_call>>

----------------------------------------------------------------------------
(* Bounds *)

\* A generated message is the concatenation of at most MaxPieces pieces.
MaxPieces == 2

----------------------------------------------------------------------------
(* Python values *)

\* A text value and the non-text values a caller may pass to chat.
Str(s) == [type |-> "str", val |-> s]
NonText == { [type |-> "int", val |-> <<"4", "2">>],
             [type |-> "NoneType", val |-> <<>>],
             [type |-> "bytes", val |-> <<"h", "i">>] }

\* None, as a response text, as a label and as an intent.
None == "<None>"
NoneSeq == << "<None>" >>
NoResult == [none |-> TRUE]

\* dict.get(key) and dict.get(key, default)
Get(d, k) == IF k \in DOMAIN d THEN d[k] ELSE None
GetOr(d, k, default) == IF k \in DOMAIN d THEN d[k] ELSE default

----------------------------------------------------------------------------
(* str methods *)

UpperChars == << "A", "B", "C", "D", "E", "F", "G", "H", "I", "J", "K", "L", "M",
                 "N", "O", "P", "Q", "R", "S", "T", "U", "V", "W", "X", "Y", "Z",
                 "Á", "É", "Í", "Ó", "Ú", "Ñ", "À", "Â", "Ç", "È", "Ê", "Ë", "Î",
                 "Ï", "Ô", "Û", "Ù", "Ü" >>
LowerChars == << "a", "b", "c", "d", "e", "f", "g", "h", "i", "j", "k", "l", "m",
                 "n", "o", "p", "q", "r", "s", "t", "u", "v", "w", "x", "y", "z",
                 "á", "é", "í", "ó", "ú", "ñ", "à", "â", "ç", "è", "ê", "ë", "î",
                 "ï", "ô", "û", "ù", "ü" >>

\* The lower-case form of each upper-case character
LowerOf == [i \in 1..Len(UpperChars) |-> LowerChars[i]]
UpperSet == { UpperChars[i] : i \in 1..Len(UpperChars) }
UpperIndex == [c \in UpperSet |-> CHOOSE i \in 1..Len(UpperChars) : UpperChars[i] = c]

lower_char(c) == IF c \in UpperSet THEN LowerOf[UpperIndex[c]] ELSE c

\* A faulty variant of lower: case is left as it is.
lower_identity(s) == s

\* str.lower()
lower(s) == [i \in 1..Len(s) |-> lower_char(s[i])]

Whitespace == {" ", "\t", "\n"}

\* str.strip()
strip(s) ==
    IF \A i \in 1..Len(s) : s[i] \in Whitespace
    THEN <<>>
    ELSE LET a == CHOOSE i \in 1..Len(s) :
                     /\ s[i] \notin Whitespace
                     /\ \A j \in 1..(i - 1) : s[j] \in Whitespace
             b == CHOOSE i \in 1..Len(s) :
                     /\ s[i] \notin Whitespace
                     /\ \A j \in (i + 1)..Len(s) : s[j] \in Whitespace
         IN  SubSeq(s, a, b)

\* sub in s
Contains(s, sub) ==
    \E i \in 1..(Len(s) - Len(sub) + 1) : SubSeq(s, i, i + Len(sub) - 1) = sub

\* s.startswith(prefix)
startswith(s, prefix) ==
    /\ Len(prefix) <= Len(s)
    /\ SubSeq(s, 1, Len(prefix)) = prefix

\* re.search(r"[...]", s) for a character class
SearchClass(class, s) == \E i \in 1..Len(s) : s[i] \in class

\* The position in an ordered list of the first element that occurs in s (0: none)
FirstMatch(list, s) ==
    IF \E i \in 1..Len(list) : Contains(s, list[i])
    THEN CHOOSE i \in 1..Len(list) :
            /\ Contains(s, list[i])
            /\ \A j \in 1..(i - 1) : ~Contains(s, list[j])
    ELSE 0

----------------------------------------------------------------------------
(* The data the program is built with *)

En == <<"e", "n">>
Es == <<"e", "s">>
Fr == <<"f", "r">>

\* self.RESPONSES as __init__ builds it
InitialResponses ==
    [ order_status |->
        (En :> "Your order is on the way and will arrive tomorrow." @@
         Es :> "Su pedido está en camino y llegará mañana." @@
         Fr :> "Votre commande est en route et arrivera demain."),
      greeting |->
        (En :> "Hello! How can I assist you today?" @@
         Es :> "¡Hola! ¿Cómo puedo ayudarte hoy?" @@
         Fr :> "Bonjour! Comment puis-je vous aider aujourd'hui?"),
      fallback |->
        (En :> "Sorry, I didn't understand that." @@
         Es :> "Lo siento, no entendí eso." @@
         Fr :> "Désolé, je n'ai pas compris cela.") ]

\* self.LABEL_MAP as __init__ builds it
InitialLabelMap == (0 :> "order_status" @@ 1 :> "greeting" @@ 2 :> "fallback")

\* self._order_keywords as __init__ builds it
InitialOrderKeywords ==
    << <<"o", "r", "d", "e", "r">>,
       <<"p", "e", "d", "i", "d", "o">>,
       <<"o", "r", "d", "e", "n">>,
       <<"e", "n", " ", "c", "a", "m", "i", "n", "o">>,
       <<"w", "h", "e", "r", "e">>,
       <<"d", "ó", "n", "d", "e">>,
       <<"d", "o", "n", "d", "e">>,
       <<"o", "ù">>,
       <<"e", "n", "v", "í", "o">>,
       <<"e", "n", "v", "i", "o">> >>

\* self._greeting_keywords as __init__ builds it
InitialGreetingKeywords ==
    << <<"h", "e", "l", "l", "o">>,
       <<"h", "i">>,
       <<"h", "e", "y">>,
       <<"h", "o", "l", "a">>,
       <<"b", "o", "n", "j", "o", "u", "r">>,
       <<"b", "u", "e", "n", "o", "s">>,
       <<"b", "u", "e", "n", "a", "s">>,
       <<"s", "a", "l", "u", "t">> >>

\* The marker lists and character classes of the heuristic detector
spanish_markers ==
    << <<"p", "e", "d", "i", "d", "o">>,
       <<"o", "r", "d", "e", "n">>,
       <<"e", "n", "v", "i", "o">>,
       <<"e", "n", "v", "í", "o">>,
       <<"d", "ó", "n", "d", "e">>,
       <<"d", "o", "n", "d", "e">>,
       <<"h", "o", "l", "a">>,
       <<"g", "r", "a", "c", "i", "a", "s">>,
       <<"p", "o", "r", " ", "f", "a", "v", "o", "r">> >>
french_markers ==
    << <<"b", "o", "n", "j", "o", "u", "r">>,
       <<"c", "o", "m", "m", "a", "n", "d", "e">>,
       <<"o", "ù">>,
       <<"o", "u">>,
       <<"m", "e", "r", "c", "i">>,
       <<"s", "a", "l", "u", "t">> >>
SpanishPunctuation == {"¿", "¡"}
SpanishAccents == {"ñ", "á", "é", "í", "ó", "ú"}
FrenchAccents == {"à", "â", "ç", "è", "é", "ê", "ë", "î", "ï", "ô", "û", "ù", "ü"}
EnglishGreetings == { <<"h", "e", "l", "l", "o">>, <<"h", "i">>, <<"h", "e", "y">> }

Digits == << "0", "1", "2", "3", "4", "5", "6", "7", "8", "9" >>
DigitSet == { Digits[i] : i \in 1..Len(Digits) }
DigitIndex == [c \in DigitSet |-> CHOOSE i \in 1..Len(Digits) : Digits[i] = c]
IsDigit(c) == c \in DigitSet
DigitValue(c) == DigitIndex[c] - 1

\* int(s) for a string of decimal digits
RECURSIVE int(_)
int(s) == IF s = <<>> THEN 0
          ELSE 10 * int(SubSeq(s, 1, Len(s) - 1)) + DigitValue(s[Len(s)])

----------------------------------------------------------------------------
(* The inputs: messages, and what the optional collaborators may answer *)

Hello == <<"H", "e", "l", "l", "o">>
DondeEstaMiPedido ==
    <<"¿", "D", "ó", "n", "d", "e", " ", "e", "s", "t", "á", " ", "m", "i", " ", "p", "e", "d", "i", "d", "o", "?">>
Bonjour == <<"B", "o", "n", "j", "o", "u", "r">>
Ciao == <<"C", "i", "a", "o">>
HiWhereIsMyOrder ==
    <<"H", "i", ",", " ", "w", "h", "e", "r", "e", " ", "i", "s", " ", "m", "y", " ", "o", "r", "d", "e", "r", "?">>

\* The messages of the local tests that the scenarios name, lines 236-252
ScenarioMessages == {Hello, DondeEstaMiPedido, Bonjour, Ciao}

\* The pieces generated messages are made of: keywords of both intents,
\* markers of both languages, accents, punctuation, upper case, whitespace.
Pieces == { <<"O", "r", "d", "e", "r">>, <<"¿">>, <<"o", "ù">>,
            <<" ">>, <<"É">>, <<"S", "a", "l", "u", "t">>,
            <<"p", "e", "d", "i", "d", "o">> }

RECURSIVE Flatten(_)
Flatten(ps) == IF ps = <<>> THEN <<>> ELSE Head(ps) \o Flatten(Tail(ps))

GeneratedMessages ==
    { Flatten(ps) : ps \in UNION { [1..n -> Pieces] : n \in 0..MaxPieces } }

Messages == ScenarioMessages \cup {HiWhereIsMyOrder} \cup GeneratedMessages

\* What a caller may pass to chat
Inputs == { Str(m) : m \in Messages } \cup NonText

\* The messages that are sent again and again
RepeatMessages == {Hello, DondeEstaMiPedido, HiWhereIsMyOrder}
RepeatInputs == { Str(m) : m \in RepeatMessages } \cup NonText

\* A collaborator that a call does not reach
NotCalledLd == [kind |-> "not_called", val |-> <<>>]
NotCalledCls == [kind |-> "not_called", label |-> <<>>]
NotCalledTr == [kind |-> "not_called", val |-> ""]
NoOutcomes == [ld |-> NotCalledLd, cls |-> NotCalledCls, tr |-> NotCalledTr]

\* langdetect.detect: a language code, or LangDetectException
LanguageCodes == { En, Es, Fr, <<"i", "t">>, <<"e", "n", "-", "u", "s">>,
                   <<"e", "s", "-", "m", "x">>, <<"f", "r", "-", "c", "a">>,
                   <<"E", "S">> }
LangdetectOutcomes ==
    { [kind |-> "raise", val |-> <<>>] } \cup
    { [kind |-> "return", val |-> c] : c \in LanguageCodes }

\* The pipeline: pred = classifier(message)[0] is a dict with a label, a dict
\* without one, something that is no dict, or the call raises.
Labels == { <<"L", "A", "B", "E", "L", "_", "0">>,
            <<"L", "A", "B", "E", "L", "_", "1">>,
            <<"L", "A", "B", "E", "L", "_", "2">>,
            <<"L", "A", "B", "E", "L", "_", "1", "0">>,
            <<"G", "r", "e", "e", "t", "i", "n", "g">>,
            <<"N", "E", "U", "T", "R", "A", "L">> }
ClassifierOutcomes ==
    { [kind |-> k, label |-> <<>>] : k \in {"raise", "dict_no_label", "non_dict"} } \cup
    { [kind |-> "dict", label |-> l] : l \in Labels }

\* GoogleTranslator(...).translate(text): some text, or the call raises
TranslatorOutcomes ==
    { [kind |-> "raise", val |-> ""],
      [kind |-> "return", val |-> "<translation A>"],
      [kind |-> "return", val |-> "<translation B>"] }

----------------------------------------------------------------------------
(* Language detection, lines 8-64 *)

\* An exception leaving a function, as the value the function yields
Raised == << "<raise>" >>

\* A faulty variant of heuristic_detect: the accent checks come before the punctuation check.
heuristic_detect_accents_first(text) ==
    IF strip(text) = <<>> THEN En
    ELSE LET txt == lower(strip(text)) IN
         IF SearchClass(FrenchAccents, txt) THEN Fr
         ELSE IF SearchClass(SpanishAccents, txt) THEN Es
         ELSE IF SearchClass(SpanishPunctuation, txt) THEN Es
         ELSE IF FirstMatch(spanish_markers, txt) # 0 THEN Es
         ELSE IF FirstMatch(french_markers, txt) # 0 THEN Fr
         ELSE En

\* The heuristic detector of lines 18-57
heuristic_detect(text) ==
    IF strip(text) = <<>> THEN En
    ELSE LET txt == lower(strip(text)) IN
         IF SearchClass(SpanishPunctuation, txt) THEN Es
         ELSE IF SearchClass(SpanishAccents, txt) THEN Es
         ELSE IF SearchClass(FrenchAccents, txt) THEN Fr
         ELSE IF FirstMatch(spanish_markers, txt) # 0 THEN Es
         ELSE IF FirstMatch(french_markers, txt) # 0 THEN Fr
         ELSE IF txt \in EnglishGreetings THEN En
         ELSE En

\* _ld_detect is langdetect's detect when the import succeeded (ld is what the
\* library does on this call) and the heuristic otherwise.
_ld_detect(text, ld) ==
    IF LANGDETECT_AVAILABLE
    THEN (IF ld.kind = "return" THEN ld.val ELSE Raised)
    ELSE heuristic_detect(text)

\* detect, lines 60-64
detect(text, ld) ==
    LET code == _ld_detect(text, ld) IN
    IF code = Raised THEN En ELSE code

----------------------------------------------------------------------------
(* Intent classification, lines 153-176 and 209-220 *)

\* A faulty variant of _rule_based_intent: the order keywords are checked first.
_rule_based_intent_orders_first(text) ==
    LET txt == lower(text) IN
    IF FirstMatch(_order_keywords, txt) # 0 THEN "order_status"
    ELSE IF FirstMatch(_greeting_keywords, txt) # 0 THEN "greeting"
    ELSE "fallback"

_rule_based_intent(text) ==
    LET txt == lower(text) IN
    IF FirstMatch(_greeting_keywords, txt) # 0 THEN "greeting"
    ELSE IF FirstMatch(_order_keywords, txt) # 0 THEN "order_status"
    ELSE "fallback"

\* re.search(r"(\d+)", s).group(1): the first maximal run of digits (<<>>: no match)
FirstDigits(s) ==
    IF ~SearchClass(DigitSet, s) THEN <<>>
    ELSE LET a == CHOOSE i \in 1..Len(s) :
                     /\ IsDigit(s[i])
                     /\ \A j \in 1..(i - 1) : ~IsDigit(s[j])
             b == CHOOSE i \in a..Len(s) :
                     /\ \A j \in a..i : IsDigit(s[j])
                     /\ (i = Len(s) \/ ~IsDigit(s[i + 1]))
         IN  SubSeq(s, a, b)

\* A faulty variant of _parse_label_to_intent: LABEL_MAP.get(idx) without the default.
_parse_label_to_intent_no_default(label) ==
    IF label = NoneSeq THEN "fallback"
    ELSE IF FirstDigits(label) # <<>> THEN Get(LABEL_MAP, int(FirstDigits(label)))
    ELSE LET label_lower == lower(label) IN
         IF \/ Contains(label_lower, <<"g", "r", "e", "e", "t">>)
            \/ Contains(label_lower, <<"h", "e", "l", "l", "o">>)
            \/ Contains(label_lower, <<"h", "i">>)
         THEN "greeting"
         ELSE "fallback"

_parse_label_to_intent(label) ==
    IF label = NoneSeq THEN "fallback"
    ELSE IF FirstDigits(label) # <<>>
         THEN GetOr(LABEL_MAP, int(FirstDigits(label)), "fallback")
    ELSE LET label_lower == lower(label) IN
         IF \/ Contains(label_lower, <<"g", "r", "e", "e", "t">>)
            \/ Contains(label_lower, <<"h", "e", "l", "l", "o">>)
            \/ Contains(label_lower, <<"h", "i">>)
         THEN "greeting"
         ELSE "fallback"

\* line 211: the model strategy is used
UseModel == model_loaded /\ classifier # "None"

\* line 214: pred.get("label") if isinstance(pred, dict) else None
pred_label(cls) == IF cls.kind = "dict" THEN cls.label ELSE NoneSeq

\* A faulty variant of classify: a failing model leaves the initial default.
classify_keeps_default(text, cls) ==
    IF UseModel
    THEN (IF cls.kind = "raise" THEN "fallback"
          ELSE _parse_label_to_intent(pred_label(cls)))
    ELSE _rule_based_intent(text)

\* lines 209-220 of chat (cls is what the pipeline does on this call)
classify(text, cls) ==
    IF UseModel
    THEN (IF cls.kind = "raise" THEN _rule_based_intent(text)
          ELSE _parse_label_to_intent(pred_label(cls)))
    ELSE _rule_based_intent(text)

----------------------------------------------------------------------------
(* Response resolution, lines 178-197 and 222-225 *)

\* x or text
Or(x, text) == IF x = None \/ x = "" THEN text ELSE x

\* self.RESPONSES.get("fallback", {}).get(code)
FallbackText(code) == Get(GetOr(RESPONSES, "fallback", <<>>), code)

\* A faulty variant of translate_text: a failing translator yields None.
translate_text_none_on_failure(text, dest_lang, tr) ==
    LET dest == lower(dest_lang) IN
    IF startswith(dest, En) THEN text
    ELSE IF TRANSLATOR_AVAILABLE
         THEN (IF tr.kind = "return" THEN tr.val ELSE None)
    ELSE IF startswith(dest, Es) THEN Or(FallbackText(Es), text)
    ELSE IF startswith(dest, Fr) THEN Or(FallbackText(Fr), text)
    ELSE text

\* A faulty variant of translate_text: the code is used as given, not lower-cased.
translate_text_no_lower(text, dest_lang, tr) ==
    LET dest == dest_lang IN
    IF startswith(dest, En) THEN text
    ELSE IF TRANSLATOR_AVAILABLE /\ tr.kind = "return" THEN tr.val
    ELSE IF startswith(dest, Es) THEN Or(FallbackText(Es), text)
    ELSE IF startswith(dest, Fr) THEN Or(FallbackText(Fr), text)
    ELSE text

\* translate_text (tr is what the translator does on this call)
translate_text(text, dest_lang, tr) ==
    LET dest == lower(dest_lang) IN
    IF startswith(dest, En) THEN text
    ELSE IF TRANSLATOR_AVAILABLE /\ tr.kind = "return" THEN tr.val
    ELSE IF startswith(dest, Es) THEN Or(FallbackText(Es), text)
    ELSE IF startswith(dest, Fr) THEN Or(FallbackText(Fr), text)
    ELSE text

\* line 222
response_dict(intent) == GetOr(RESPONSES, intent, RESPONSES["fallback"])

\* line 224: no canned reply for the exact code, translate_text is called
NeedsTranslation(intent, detected_lang) ==
    Get(response_dict(intent), detected_lang) = None

\* line 186-188: translate_text reaches the translator
TranslatorCalled(intent, detected_lang) ==
    /\ NeedsTranslation(intent, detected_lang)
    /\ ~startswith(lower(detected_lang), En)
    /\ TRANSLATOR_AVAILABLE

\* lines 222-225 of chat
resolve(intent, detected_lang, tr) ==
    IF NeedsTranslation(intent, detected_lang)
    THEN translate_text(GetOr(response_dict(intent), En, ""), detected_lang, tr)
    ELSE Get(response_dict(intent), detected_lang)

----------------------------------------------------------------------------
(* chat, lines 199-227, and its caller *)

NoMessage == [type |-> "<no call>", val |-> <<>>]
NoCall == [none |-> TRUE]

\* A faulty variant of is_str: the argument is not validated.
is_str_unchecked(msg) == TRUE

\* line 201: isinstance(message, str)
is_str(msg) == msg.type = "str"

\* The stages and collaborators a call with these outcomes runs
Invoked(intent, detected_lang, cls) ==
    {"detect"}
    \cup (IF LANGDETECT_AVAILABLE THEN {"langdetect"} ELSE {"heuristic"})
    \cup (IF UseModel THEN {"classifier"} ELSE {})
    \cup (IF ~UseModel \/ cls.kind = "raise" THEN {"_rule_based_intent"} ELSE {})
    \cup (IF NeedsTranslation(intent, detected_lang) THEN {"translate_text"} ELSE {})
    \cup (IF TranslatorCalled(intent, detected_lang) THEN {"translator"} ELSE {})

\* What chat does for its caller: it raises ValueError or returns the dict.
chat_effect(msg, ld, cls, tr) ==
    /\ message' = msg
    /\ IF ~is_str(msg)
       THEN /\ ld = NotCalledLd /\ cls = NotCalledCls /\ tr = NotCalledTr
            /\ pc' = "raised"
            /\ error' = "ValueError"
            /\ result' = NoResult
            /\ invoked' = {}
            /\ outcomes' = [ld |-> ld, cls |-> cls, tr |-> tr]
       ELSE LET detected_lang == detect(msg.val, ld)
                intent == classify(msg.val, cls)
                reply == resolve(intent, detected_lang, tr)
            IN  /\ (ld.kind = "not_called") <=> ~LANGDETECT_AVAILABLE
                /\ (cls.kind = "not_called") <=> ~UseModel
                /\ (tr.kind = "not_called") <=> ~TranslatorCalled(intent, detected_lang)
                /\ pc' = "returned"
                /\ error' = "none"
                /\ result' = [detected_language |-> detected_lang,
                              intent |-> intent,
                              response |-> reply]
                /\ invoked' = Invoked(intent, detected_lang, cls)
                /\ outcomes' = [ld |-> ld, cls |-> cls, tr |-> tr]

\* A faulty variant of chat: a model that fails at inference is switched off.
chat_disables_model(msg, ld, cls, tr) ==
    /\ chat_effect(msg, ld, cls, tr)
    /\ model_loaded' = (model_loaded /\ cls.kind # "raise")
    /\ UNCHANGED <<flagVars, classifier, RESPONSES, LABEL_MAP,
                   _order_keywords, _greeting_keywords>>

\* A faulty variant of chat: a call retries the model loading that failed at startup.
chat_retries_loading(msg, ld, cls, tr) ==
    /\ chat_effect(msg, ld, cls, tr)
    /\ model_loaded' = (model_loaded \/ (TRANSFORMERS_AVAILABLE /\ is_str(msg)))
    /\ classifier' = IF model_loaded' THEN "pipeline" ELSE "None"
    /\ UNCHANGED <<flagVars, RESPONSES, LABEL_MAP,
                   _order_keywords, _greeting_keywords>>

\* chat: it reads the flags and the fields of the bot and writes none of them.
chat(msg, ld, cls, tr) ==
    /\ chat_effect(msg, ld, cls, tr)
    /\ UNCHANGED <<flagVars, botVars>>

\* What each collaborator may do on a call: nothing when the call does not
\* reach it, any of its outcomes otherwise.
LdChoices(msg) ==
    IF is_str(msg) /\ LANGDETECT_AVAILABLE THEN LangdetectOutcomes ELSE {NotCalledLd}
ClsChoices(msg) ==
    IF is_str(msg) /\ UseModel THEN ClassifierOutcomes ELSE {NotCalledCls}
TrChoices(msg, ld, cls) ==
    IF is_str(msg) /\ TranslatorCalled(classify(msg.val, cls), detect(msg.val, ld))
    THEN TranslatorOutcomes
    ELSE {NotCalledTr}

\* A caller calls chat with any input.
call ==
    /\ pc = "ready"
    /\ \E msg \in Inputs : \E ld \in LdChoices(msg) : \E cls \in ClsChoices(msg) :
         \E tr \in TrChoices(msg, ld, cls) : chat(msg, ld, cls, tr)
    /\ UNCHANGED first_call

\* A caller calls chat with one of the repeated messages; the history variable
\* keeps the first call of the session and whether its message was sent again.
repeat_call ==
    /\ pc = "ready"
    /\ \E msg \in RepeatInputs : \E ld \in LdChoices(msg) : \E cls \in ClsChoices(msg) :
         \E tr \in TrChoices(msg, ld, cls) : chat(msg, ld, cls, tr)
    /\ first_call' = IF pc' # "returned"
                     THEN first_call
                     ELSE IF first_call = NoCall
                     THEN [message |-> message'.val,
                           detected_language |-> result'.detected_language,
                           intent |-> result'.intent,
                           repeated |-> FALSE]
                     ELSE IF message'.val = first_call.message
                     THEN [first_call EXCEPT !.repeated = TRUE]
                     ELSE first_call

\* The caller has taken the result (or caught the error) and goes on to its
\* next call, as the loops of lines 257-260 and 263-266 do.
next_call ==
    /\ pc # "ready"
    /\ pc' = "ready"
    /\ message' = NoMessage
    /\ result' = NoResult
    /\ error' = "none"
    /\ invoked' = {}
    /\ outcomes' = NoOutcomes
    /\ UNCHANGED <<flagVars, botVars, first_call>>

\* The state after the module is imported and the bot is constructed: each
\* optional import succeeded or not, and the model loaded or not.
Init ==
    /\ LANGDETECT_AVAILABLE \in BOOLEAN
    /\ TRANSFORMERS_AVAILABLE \in BOOLEAN
    /\ TRANSLATOR_AVAILABLE \in BOOLEAN
    /\ model_loaded \in (IF TRANSFORMERS_AVAILABLE THEN BOOLEAN ELSE {FALSE})
    /\ classifier = IF model_loaded THEN "pipeline" ELSE "None"
    /\ RESPONSES = InitialResponses
    /\ LABEL_MAP = InitialLabelMap
    /\ _order_keywords = InitialOrderKeywords
    /\ _greeting_keywords = InitialGreetingKeywords
    /\ pc = "ready"
    /\ message = NoMessage
    /\ result = NoResult
    /\ error = "none"
    /\ invoked = {}
    /\ outcomes = NoOutcomes
    /\ first_call = NoCall

Next == call \/ next_call

Spec == Init /\ [][Next]_vars

NextRepeat == repeat_call \/ next_call

SpecRepeat == Init /\ [][NextRepeat]_vars

----------------------------------------------------------------------------
(* Properties *)

Intents == {"order_status", "greeting", "fallback"}

\* The collaborator raised during the last call
Failed(name) == outcomes[name].kind = "raise"

\* The last call was made with a text and has ended
TextCallEnded == pc # "ready" /\ message.type = "str"

\* C1: for every text message, the empty string included, and whatever the
\* optional collaborators are and do (present, absent, raising), chat returns
\* a record with exactly the fields detected_language, intent and response,
\* none of them null.
C1_CompleteResult ==
    TextCallEnded =>
        /\ pc = "returned"
        /\ error = "none"
        /\ DOMAIN result = {"detected_language", "intent", "response"}
        /\ result.detected_language \notin {NoneSeq, Raised}
        /\ result.intent # None
        /\ result.response # None

\* C1 witness: the empty string, with the model and the translator both
\* raising during the call, still gets a complete result.
C1_Witness ==
    /\ pc = "returned"
    /\ message = Str(<<>>)
    /\ Failed("cls") /\ Failed("tr")
    /\ result.response = InitialResponses["fallback"][Es]

\* C2: the intent of every result is order_status, greeting or fallback,
\* under both strategies and whatever the model returns.
C2_IntentInEnumeration ==
    pc = "returned" => result.intent \in Intents

\* C2 witness: the model returned a label whose integer is outside 0..2.
C2_Witness ==
    /\ pc = "returned"
    /\ outcomes.cls.kind = "dict"
    /\ FirstDigits(outcomes.cls.label) # <<>>
    /\ int(FirstDigits(outcomes.cls.label)) \notin 0..2
    /\ result.intent = "fallback"

\* C3: a call with a non-text message raises the invalid-input error and
\* nothing else happens: no stage runs, no collaborator is called and no
\* result is returned.
C3_InvalidInputRejected ==
    (pc # "ready" /\ message.type # "str") =>
        /\ pc = "raised"
        /\ error = "ValueError"
        /\ result = NoResult
        /\ invoked = {}
        /\ outcomes = NoOutcomes

\* C3 witness: chat was called with an integer and raised.
C3_Witness ==
    /\ pc = "raised"
    /\ message.type = "int"

\* The text contains, lower-cased, one of the keywords of the list
HasKeyword(list, text) ==
    \E i \in 1..Len(list) : Contains(lower(text), list[i])
HasBoth(text) ==
    /\ HasKeyword(InitialGreetingKeywords, text)
    /\ HasKeyword(InitialOrderKeywords, text)

\* C4 as stated: any text with both a greeting keyword and an order keyword
\* gets the intent greeting.
C4_Original ==
    (pc = "returned" /\ HasBoth(message.val)) => result.intent = "greeting"

\* C4 amended: any text with both a greeting keyword and an order keyword
\* gets the intent greeting whenever the rule-based strategy classifies it
\* (the model is not loaded, or its inference raised).
C4_GreetingPrecedence ==
    (pc = "returned" /\ HasBoth(message.val) /\ "_rule_based_intent" \in invoked)
        => result.intent = "greeting"

\* C4 witness: a text in which an order keyword comes before a greeting
\* keyword was classified by the rules.
C4_Witness ==
    /\ pc = "returned"
    /\ message = Str(<<"O", "r", "d", "e", "r", "S", "a", "l", "u", "t">>)
    /\ "_rule_based_intent" \in invoked
    /\ result.intent = "greeting"

HasInvertedQuestionMark(text) == \E i \in 1..Len(text) : text[i] = "¿"

\* C5 as stated: a text containing the inverted question mark is always
\* detected as es.
C5_Original ==
    (pc = "returned" /\ HasInvertedQuestionMark(message.val))
        => result.detected_language = Es

\* C5 amended: under the heuristic detector (langdetect not importable) a
\* text containing the inverted question mark is detected as es, whatever
\* else it contains.
C5_DetectionPrecedence ==
    (pc = "returned" /\ HasInvertedQuestionMark(message.val) /\ ~LANGDETECT_AVAILABLE)
        => result.detected_language = Es

\* C5 witness: the heuristic detected es for a text with the mark followed
\* by a French marker that has a French accent.
C5_Witness ==
    /\ pc = "returned"
    /\ ~LANGDETECT_AVAILABLE
    /\ message = Str(<<"¿", "o", "ù">>)
    /\ result.detected_language = Es

\* A step in which chat returns for the message of the session's first call
RepeatsFirstCall ==
    /\ pc = "ready"
    /\ pc' = "returned"
    /\ first_call # NoCall
    /\ message'.val = first_call.message

\* C6 as stated: every call with the same message returns the same intent
\* and the same detected language, whatever calls come in between.
C6_Original ==
    [][RepeatsFirstCall =>
          /\ result'.detected_language = first_call.detected_language
          /\ result'.intent = first_call.intent]_vars

\* C6 amended: every call with the same message returns the same detected
\* language when the heuristic detector is active and the same intent when
\* the model is not loaded, whatever calls come in between; with langdetect
\* or the loaded model the two fields are what the library or the model
\* yields on each call, and a call whose inference raises gets the rule-based
\* intent.
C6_RepeatableResult ==
    [][RepeatsFirstCall =>
          /\ ~LANGDETECT_AVAILABLE
                => result'.detected_language = first_call.detected_language
          /\ ~model_loaded
                => result'.intent = first_call.intent]_vars

\* C6 witness: with the heuristic detector and the rules, the message of the
\* first call was sent again and got the same language and intent.
C6_Witness ==
    /\ ~LANGDETECT_AVAILABLE
    /\ ~model_loaded
    /\ pc = "returned"
    /\ first_call # NoCall
    /\ first_call.repeated
    /\ message.val = first_call.message
    /\ result.detected_language = first_call.detected_language
    /\ result.intent = first_call.intent

\* The heuristic detector and the rules are the active strategies
HeuristicAndRules == ~LANGDETECT_AVAILABLE /\ ~UseModel

Returned(text, lang, intent, response) ==
    (pc = "returned" /\ message = Str(text)) =>
        result = [detected_language |-> lang, intent |-> intent, response |-> response]

\* C7: with the heuristic detector and the rules, "Hello" gives (en,
\* greeting), the Spanish order question gives (es, order_status), "Bonjour"
\* gives (fr, greeting) and "Ciao" gives (en, fallback), each with the canned
\* text of that intent and language.
C7_Scenarios ==
    HeuristicAndRules =>
        /\ Returned(Hello, En, "greeting", "Hello! How can I assist you today?")
        /\ Returned(DondeEstaMiPedido, Es, "order_status",
                    "Su pedido está en camino y llegará mañana.")
        /\ Returned(Bonjour, Fr, "greeting",
                    "Bonjour! Comment puis-je vous aider aujourd'hui?")
        /\ Returned(Ciao, En, "fallback", "Sorry, I didn't understand that.")

\* C7 witness: the Spanish order question was answered under the heuristic
\* detector and the rules.
C7_Witness ==
    /\ HeuristicAndRules
    /\ pc = "returned"
    /\ message = Str(DondeEstaMiPedido)
    /\ result.response = "Su pedido está en camino y llegará mañana."

\* C8: when the model strategy is active and inference raises, chat returns
\* and the intent is the one the rules give for the same message.
C8_InferenceFailureFallsBackToRules ==
    (pc # "ready" /\ message.type = "str" /\ UseModel /\ Failed("cls")) =>
        /\ pc = "returned"
        /\ "_rule_based_intent" \in invoked
        /\ result.intent = _rule_based_intent(message.val)

\* C8 witness: inference raised and the call returned the rules' intent,
\* which is not the initial default.
C8_Witness ==
    /\ pc = "returned"
    /\ UseModel
    /\ Failed("cls")
    /\ result.intent = "order_status"

\* C9: no chat call, whether it returns, degrades or is rejected, changes
\* the availability flags, model_loaded, the classifier, the response table,
\* the label map or the keyword lists; a call made while the model is not
\* loaded is classified by the rules without the model, and a call made
\* while it is loaded runs the model, also after an inference failure.
C9_ChatIsStateless ==
    [][/\ flagVars' = flagVars
       /\ botVars' = botVars
       /\ (pc = "ready" /\ pc' = "returned") =>
             IF model_loaded
             THEN "classifier" \in invoked'
             ELSE /\ "classifier" \notin invoked'
                  /\ "_rule_based_intent" \in invoked']_vars

\* C9 witness: loading failed at startup although transformers is
\* importable, and a call was classified by the rules.
C9_Witness ==
    /\ TRANSFORMERS_AVAILABLE
    /\ ~model_loaded
    /\ pc = "returned"
    /\ "classifier" \notin invoked
    /\ "_rule_based_intent" \in invoked

\* The last call returned for a language code the intent's mapping has no
\* entry for
NoExactEntry ==
    /\ pc = "returned"
    /\ result.detected_language \notin DOMAIN InitialResponses[result.intent]

\* The translator is not there or raised during the last call
TranslatorUnavailableOrFailed == ~TRANSLATOR_AVAILABLE \/ Failed("tr")

\* What C10 says the response is, for the code as the prefix tests see it
ResolutionRule(code) ==
    LET english == InitialResponses[result.intent][En] IN
    IF startswith(code, En)
    THEN result.response = english /\ "translator" \notin invoked
    ELSE TranslatorUnavailableOrFailed =>
            IF startswith(code, Es)
            THEN result.response = InitialResponses["fallback"][Es]
            ELSE IF startswith(code, Fr)
            THEN result.response = InitialResponses["fallback"][Fr]
            ELSE result.response = english

\* C10 as stated: the prefix tests are made on the detected code itself.
C10_Original == NoExactEntry => ResolutionRule(result.detected_language)

\* C10 amended: the prefix tests are made on the lower-cased code: a code
\* whose lower-cased form starts with "en" gets the intent's English text
\* without the translator; otherwise, with the translator absent or raising,
\* a lower-cased form starting with "es" or "fr" gets the fallback intent's
\* Spanish or French text and any other code the intent's English text.
C10_ResolutionWithoutExactEntry ==
    NoExactEntry => ResolutionRule(lower(result.detected_language))

\* C10 witness: an upper-case Spanish code with no translator got the
\* fallback intent's Spanish text although the intent is greeting.
C10_Witness ==
    /\ NoExactEntry
    /\ ~TRANSLATOR_AVAILABLE
    /\ result.detected_language = <<"E", "S">>
    /\ result.intent = "greeting"
    /\ result.response = InitialResponses["fallback"][Es]

====
